---- MODULE Spec2Model ----
(***************************************************************************)
(* Daily-log state and synchronisation engine of HealthLogApp              *)
(* (src/src/context/AppContext.tsx, src/src/context/AuthContext.tsx).      *)
(*                                                                         *)
(* Instants are counted in half days of the user's local calendar, so the  *)
(* instants 2d and 2d+1 fall on local day d.  An optional value            *)
(* (number | null) is a sequence: <<>> is null and <<x>> is x.  A remote   *)
(* table is the set of its rows; the updated_at column of user_goals and   *)
(* of profiles, which the application writes and never reads, is left out. *)
(***************************************************************************)
EXTENDS Integers, FiniteSets, Sequences, Bags, TLC

VARIABLES
    now,            \* the wall clock (new Date())
    user,           \* AuthContext: the signed-in user, or NoUser
    todayLog,       \* AppProvider state
    goals,
    profile,
    cycleSettings,
    isLoading,
    daily_logs,     \* remote table daily_logs
    user_goals,     \* remote table user_goals
    profiles,       \* remote table profiles
    upserts,        \* upsert requests of saveToSupabase in flight
    loads,          \* loadData calls suspended at an await (a bag)
    writes,         \* updateGoal/updateProfile/updateCycleSettings calls suspended at their await
    thrown,         \* errors thrown to the callers of the settings updates so far
    issued,         \* history, read by no action: the <<type, grams>> passed to addMacro
    queries,        \* getWeightHistory / getSevenDayAverages calls: suspended at
                    \* their await, or returned, with the value they returned
    offset,         \* the zone of the device: local time minus UTC, in half days
    left            \* how many more calls from outside may start work: user input,
                    \* auth changes, day-change checks that find the log stale

vars == <<now, user, todayLog, goals, profile, cycleSettings, isLoading,
          daily_logs, user_goals, profiles, upserts, loads, writes,
          thrown, issued, queries, offset, left>>

cache == <<todayLog, goals, profile, cycleSettings>>
remote == <<daily_logs, user_goals, profiles>>

\* ------------------------------------------------------------------ bounds
MaxTime == 2        \* the clock stops at this instant
MaxEvents == 2      \* calls from outside that start work, in one behaviour
MaxCalls == 3       \* addMacro calls in one behaviour of SpecMacro
MaxReloads == 3     \* calls that start work in one behaviour of SpecLive
MaxQueries == 2     \* how many aggregate queries are called

\* ------------------------------------------------------------------ values
NoUser == "none"
Users == {"u1", "u2"}
None == <<>>
Some(x) == <<x>>

MacroTypes == {"protein", "carbs", "fat"}
RatingTypes == {"energy", "hunger", "motivation"}

\* ------------------------------------------------------------------ pure helpers
\* the day of the instant in UTC, whatever the zone of the device
getUTCDateString(date) == (date - offset) \div 2

getLocalDateString(date) == date \div 2

getTodayString == getLocalDateString(now)

isLogStale(logDate) == logDate # getTodayString

\* every macro counted at 4 kcal per gram
calculateCaloriesAtFour(protein, carbs, fat) == (protein * 4) + (carbs * 4) + (fat * 4)

calculateCalories(protein, carbs, fat) == (protein * 4) + (carbs * 4) + (fat * 9)

DEFAULT_GOALS ==
    [caloriesGoal |-> 2000, proteinGoal |-> 120, carbsGoal |-> 250,
     fatGoal |-> 65, stepsGoal |-> 10000, sleepGoal |-> 8]

createEmptyDailyLog(date) ==
    [date |-> getLocalDateString(date),
     proteinGrams |-> 0, carbsGrams |-> 0, fatGrams |-> 0, totalCalories |-> 0,
     sleepHours |-> None, weightLbs |-> None, isPeriodDay |-> FALSE, steps |-> 0,
     energyRating |-> None, hungerRating |-> None, motivationRating |-> None,
     createdAt |-> now, updatedAt |-> now]

InitialProfile == [age |-> None, heightFeet |-> None, heightInches |-> None]

InitialCycleSettings ==
    [cycleLength |-> 28, averagePeriodDays |-> 5, lastPeriodStartDate |-> None]

dbToApp(row) ==
    [date |-> row.log_date,
     proteinGrams |-> row.protein_grams, carbsGrams |-> row.carbs_grams,
     fatGrams |-> row.fat_grams, totalCalories |-> row.total_calories,
     sleepHours |-> row.sleep_hours, weightLbs |-> row.weight_lbs,
     isPeriodDay |-> row.is_period_day, steps |-> row.steps,
     energyRating |-> row.energy_rating, hungerRating |-> row.hunger_rating,
     motivationRating |-> row.motivation_rating,
     createdAt |-> row.created_at, updatedAt |-> row.updated_at]

dbGoalsToApp(row) ==
    [caloriesGoal |-> row.calories_goal, proteinGoal |-> row.protein_goal,
     carbsGoal |-> row.carbs_goal, fatGoal |-> row.fat_goal,
     stepsGoal |-> row.steps_goal, sleepGoal |-> row.sleep_goal]

goalKeyMap ==
    [caloriesGoal |-> "calories_goal", proteinGoal |-> "protein_goal",
     carbsGoal |-> "carbs_goal", fatGoal |-> "fat_goal",
     stepsGoal |-> "steps_goal", sleepGoal |-> "sleep_goal"]

\* a || d of JavaScript on an optional number: null and 0 are falsy
OrDefault(opt, d) == IF opt = None \/ opt = Some(0) THEN d ELSE opt[1]


\* ------------------------------------------------------------------ remote store
\* .single(): the row when exactly one row matches, otherwise no data
single(rows) == IF Cardinality(rows) = 1 THEN rows ELSE {}

Merge(row, values) ==
    [f \in DOMAIN row |-> IF f \in DOMAIN values THEN values[f] ELSE row[f]]

\* a plain insert, whatever rows the table holds
insert(table, values) == table \cup {values @@ [created_at |-> now]}

\* .upsert(values, { onConflict: 'user_id,log_date' }): the rows in conflict
\* take the values sent, and a row is inserted only when there is none; the
\* table stamps created_at on the rows it inserts
upsert(table, values) ==
    LET hit == {r \in table : r.user_id = values.user_id /\ r.log_date = values.log_date}
    IN  IF hit = {}
        THEN table \cup {values @@ [created_at |-> now]}
        ELSE (table \ hit) \cup {Merge(r, values) : r \in hit}

\* .update(values).eq(column, id): every matching row takes the values
update(table, column, id, values) ==
    {IF r[column] = id THEN Merge(r, values) ELSE r : r \in table}

\* ------------------------------------------------------------------ daily-log mutators
\* the upsert request saveToSupabase sends for log (none without a user); seq
\* orders the requests by the time they were sent
saveToSupabase(log) ==
    IF user = NoUser THEN upserts
    ELSE upserts \cup
         {[seq |-> 0 - left,
           row |-> [user_id |-> user,
                    log_date |-> log.date,
                    protein_grams |-> log.proteinGrams,
                    carbs_grams |-> log.carbsGrams,
                    fat_grams |-> log.fatGrams,
                    total_calories |->
                        calculateCalories(log.proteinGrams, log.carbsGrams, log.fatGrams),
                    sleep_hours |-> log.sleepHours,
                    weight_lbs |-> log.weightLbs,
                    is_period_day |-> log.isPeriodDay,
                    steps |-> log.steps,
                    energy_rating |-> log.energyRating,
                    hunger_rating |-> log.hungerRating,
                    motivation_rating |-> log.motivationRating,
                    updated_at |-> now]]}

\* setTodayLog(prev => { ...; saveToSupabase(newLog); return newLog })
Mutate(newLog) ==
    /\ left > 0
    /\ left' = left - 1
    /\ todayLog' = newLog
    /\ upserts' = saveToSupabase(newLog)
    /\ UNCHANGED <<now, user, goals, profile, cycleSettings, isLoading,
                   daily_logs, user_goals, profiles, loads, writes, thrown>>

MacroKey(type) ==
    CASE type = "protein" -> "proteinGrams"
      [] type = "carbs" -> "carbsGrams"
      [] type = "fat" -> "fatGrams"

RatingKey(type) ==
    CASE type = "energy" -> "energyRating"
      [] type = "hunger" -> "hungerRating"
      [] type = "motivation" -> "motivationRating"

addMacroLog(prev, type, grams) ==
    LET added == [prev EXCEPT ![MacroKey(type)] = prev[MacroKey(type)] + grams,
                              !.updatedAt = now]
    IN  [added EXCEPT !.totalCalories =
            calculateCalories(added.proteinGrams, added.carbsGrams, added.fatGrams)]

addMacro(type, grams) ==
    /\ Mutate(addMacroLog(todayLog, type, grams))
    /\ issued' = Append(issued, <<type, grams>>)
    /\ UNCHANGED <<queries, offset>>

setSleep(hours) ==
    /\ Mutate([todayLog EXCEPT !.sleepHours = Some(hours), !.updatedAt = now])
    /\ UNCHANGED <<issued, queries, offset>>

\* setWeight on a new record instead of the cached one
setWeightOnEmpty(lbs) ==
    /\ Mutate([createEmptyDailyLog(now) EXCEPT !.weightLbs = Some(lbs), !.updatedAt = now])
    /\ UNCHANGED <<issued, queries, offset>>

setWeight(lbs) ==
    /\ Mutate([todayLog EXCEPT !.weightLbs = Some(lbs), !.updatedAt = now])
    /\ UNCHANGED <<issued, queries, offset>>

setPeriodDay(isPeriod) ==
    /\ Mutate([todayLog EXCEPT !.isPeriodDay = isPeriod, !.updatedAt = now])
    /\ UNCHANGED <<issued, queries, offset>>

setRating(type, value) ==
    /\ Mutate([todayLog EXCEPT ![RatingKey(type)] = value, !.updatedAt = now])
    /\ UNCHANGED <<issued, queries, offset>>

setSteps(steps) ==
    /\ Mutate([todayLog EXCEPT !.steps = steps, !.updatedAt = now])
    /\ UNCHANGED <<issued, queries, offset>>

\* the upsert lands and the row it wrote is put into the cache
UpsertLandIntoCache(m) ==
    /\ m \in upserts
    /\ upserts' = upserts \ {m}
    /\ daily_logs' = upsert(daily_logs, m.row)
    /\ todayLog' = dbToApp(CHOOSE r \in daily_logs' :
                              r.user_id = m.row.user_id /\ r.log_date = m.row.log_date)
    /\ UNCHANGED <<now, user, goals, profile, cycleSettings, isLoading,
                   user_goals, profiles, loads, writes, thrown, issued, queries, offset, left>>

\* the upsert request reaches the table
UpsertLand(m) ==
    /\ m \in upserts
    /\ upserts' = upserts \ {m}
    /\ daily_logs' = upsert(daily_logs, m.row)
    /\ UNCHANGED <<now, user, todayLog, goals, profile, cycleSettings, isLoading,
                   user_goals, profiles, loads, writes, thrown, issued, queries, offset, left>>

\* the upsert request fails and the cache is put back to the stored row
UpsertFailReverts(m) ==
    /\ m \in upserts
    /\ upserts' = upserts \ {m}
    /\ todayLog' = IF \E r \in daily_logs : r.user_id = m.row.user_id /\ r.log_date = m.row.log_date
                   THEN dbToApp(CHOOSE r \in daily_logs :
                                   r.user_id = m.row.user_id /\ r.log_date = m.row.log_date)
                   ELSE createEmptyDailyLog(now)
    /\ UNCHANGED <<now, user, goals, profile, cycleSettings, isLoading,
                   daily_logs, user_goals, profiles, loads, writes, thrown, issued, queries, offset, left>>

\* the upsert request fails; saveToSupabase ignores the result
UpsertFail(m) ==
    /\ m \in upserts
    /\ upserts' = upserts \ {m}
    /\ UNCHANGED <<now, user, todayLog, goals, profile, cycleSettings, isLoading,
                   daily_logs, user_goals, profiles, loads, writes, thrown, issued, queries, offset, left>>

\* ------------------------------------------------------------------ loadData
\* a loadData that asks for the day of the cached log
NewLoadOfCachedDay(u) ==
    [user |-> u, today |-> todayLog.date,
     pc |-> "log", answered |-> FALSE, error |-> "none", data |-> {},
     fetched |-> None]

\* fetched is history, read by no action: the log this call has installed
NewLoad(u) ==
    [user |-> u, today |-> getTodayString,
     pc |-> "log", answered |-> FALSE, error |-> "none", data |-> {},
     fetched |-> None]

\* loadData() of the render whose user is u, up to its first await
loadData(u) ==
    IF u = NoUser
    THEN /\ todayLog' = createEmptyDailyLog(now)
         /\ goals' = DEFAULT_GOALS
         /\ isLoading' = FALSE
         /\ UNCHANGED loads
    ELSE /\ isLoading' = TRUE
         /\ loads' = loads (+) SetToBag({NewLoad(u)})
         /\ UNCHANGED <<todayLog, goals>>

\* the rows a suspended loadData selects
Selected(l) ==
    CASE l.pc = "log" ->
            {r \in daily_logs : r.user_id = l.user /\ r.log_date = l.today}
      [] l.pc = "goals" -> {r \in user_goals : r.user_id = l.user}
      [] l.pc = "profile" -> {r \in profiles : r.id = l.user}

\* the store answers the select of a suspended loadData: the single row, or
\* no data with an error when no row (or more than one) matches
FetchAnswer(l) ==
    /\ BagIn(l, loads)
    /\ ~l.answered
    /\ loads' = (loads (-) SetToBag({l})) (+) SetToBag(
                {[l EXCEPT !.answered = TRUE,
                           !.data = single(Selected(l)),
                           !.error = IF single(Selected(l)) = {} THEN "PGRST116" ELSE "none"]})
    /\ UNCHANGED <<now, user, todayLog, goals, profile, cycleSettings, isLoading,
                   daily_logs, user_goals, profiles, upserts, writes, thrown, issued, queries, offset, left>>

\* the select fails (network, auth): no data, and an error
FetchFail(l) ==
    /\ BagIn(l, loads)
    /\ ~l.answered
    /\ loads' = (loads (-) SetToBag({l})) (+) SetToBag(
                {[l EXCEPT !.answered = TRUE, !.data = {}, !.error = "network"]})
    /\ UNCHANGED <<now, user, todayLog, goals, profile, cycleSettings, isLoading,
                   daily_logs, user_goals, profiles, upserts, writes, thrown, issued, queries, offset, left>>

TheRow(data) == CHOOSE r \in data : TRUE

\* loadData resumes with today's log, saves the empty record it made when
\* there was no row, and selects the goals
LoadLogSavesEmpty(l) ==
    /\ BagIn(l, loads)
    /\ l.pc = "log" /\ l.answered
    /\ todayLog' = IF l.data # {} THEN dbToApp(TheRow(l.data))
                   ELSE createEmptyDailyLog(now)
    /\ upserts' = IF l.data # {} THEN upserts ELSE saveToSupabase(todayLog')
    /\ loads' = (loads (-) SetToBag({l})) (+) SetToBag(
                {[l EXCEPT !.pc = "goals", !.answered = FALSE, !.error = "none", !.data = {},
                           !.fetched = Some(todayLog')]})
    /\ UNCHANGED <<now, user, goals, profile, cycleSettings, isLoading,
                   daily_logs, user_goals, profiles, writes, thrown, issued, queries, offset, left>>

\* loadData resumes with today's log and selects the goals
LoadLog(l) ==
    /\ BagIn(l, loads)
    /\ l.pc = "log" /\ l.answered
    /\ todayLog' = IF l.data # {} THEN dbToApp(TheRow(l.data))
                   ELSE createEmptyDailyLog(now)
    /\ loads' = (loads (-) SetToBag({l})) (+) SetToBag(
                {[l EXCEPT !.pc = "goals", !.answered = FALSE, !.error = "none", !.data = {},
                           !.fetched = Some(todayLog')]})
    /\ UNCHANGED <<now, user, goals, profile, cycleSettings, isLoading,
                   daily_logs, user_goals, profiles, upserts, writes, thrown, issued, queries, offset, left>>

\* loadData resumes with the goals and selects the profile
LoadGoals(l) ==
    /\ BagIn(l, loads)
    /\ l.pc = "goals" /\ l.answered
    /\ goals' = IF l.data # {} THEN dbGoalsToApp(TheRow(l.data)) ELSE goals
    /\ loads' = (loads (-) SetToBag({l})) (+) SetToBag(
                {[l EXCEPT !.pc = "profile", !.answered = FALSE, !.error = "none", !.data = {}]})
    /\ UNCHANGED <<now, user, todayLog, profile, cycleSettings, isLoading,
                   daily_logs, user_goals, profiles, upserts, writes, thrown, issued, queries, offset, left>>

\* loadData resumes with the profile and returns
LoadProfile(l) ==
    /\ BagIn(l, loads)
    /\ l.pc = "profile" /\ l.answered
    /\ IF l.data # {}
       THEN LET profileData == TheRow(l.data)
            IN  /\ profile' = [age |-> profileData.age,
                               heightFeet |-> profileData.height_feet,
                               heightInches |-> profileData.height_inches]
                /\ cycleSettings' =
                     [cycleLength |-> OrDefault(profileData.cycle_length_days, 28),
                      averagePeriodDays |-> OrDefault(profileData.period_length_days, 5),
                      lastPeriodStartDate |-> profileData.last_period_start]
       ELSE UNCHANGED <<profile, cycleSettings>>
    /\ isLoading' = FALSE
    /\ loads' = loads (-) SetToBag({l})
    /\ UNCHANGED <<now, user, todayLog, goals,
                   daily_logs, user_goals, profiles, upserts, writes, thrown, issued, queries, offset, left>>

\* the profile and the cycle settings loadData makes of a profiles row
ProfileOf(row) ==
    [age |-> row.age, heightFeet |-> row.height_feet, heightInches |-> row.height_inches]

CycleSettingsOf(row) ==
    [cycleLength |-> OrDefault(row.cycle_length_days, 28),
     averagePeriodDays |-> OrDefault(row.period_length_days, 5),
     lastPeriodStartDate |-> row.last_period_start]

\* ------------------------------------------------------------------ session and clock
\* onAuthStateChange / getSession: setUser, then the effect on loadData runs it
AuthChange(u) ==
    /\ left > 0
    /\ u # NoUser \/ user # NoUser
    /\ left' = left - 1
    /\ user' = u
    /\ loadData(u)
    /\ UNCHANGED <<now, profile, cycleSettings,
                   daily_logs, user_goals, profiles, upserts, writes, thrown, issued, queries, offset>>

checkForDayChange ==
    /\ user # NoUser
    /\ IF isLogStale(todayLog.date)
       THEN /\ left > 0
            /\ left' = left - 1
            /\ loadData(user)
       ELSE UNCHANGED <<todayLog, goals, isLoading, loads, left>>
    /\ UNCHANGED <<now, user, profile, cycleSettings,
                   daily_logs, user_goals, profiles, upserts, writes, thrown, issued, queries, offset>>

\* setInterval(checkForDayChange, 60000)
TimerTick == checkForDayChange

\* document 'visibilitychange'
handleVisibilityChange(visibilityState) ==
    IF visibilityState = "visible"
    THEN checkForDayChange
    ELSE user # NoUser /\ UNCHANGED vars

\* the wall clock advances
ClockTick ==
    /\ now < MaxTime
    /\ now' = now + 1
    /\ UNCHANGED <<user, todayLog, goals, profile, cycleSettings, isLoading,
                   daily_logs, user_goals, profiles, upserts, loads, writes,
                   thrown, issued, queries, offset, left>>

\* ------------------------------------------------------------------ settings updates
\* the values an update call sends, by remote column
GoalUpdate(w) == [c \in {goalKeyMap[w.field]} |-> w.value[1]]

ProfileUpdate(w) ==
    IF w.field = "age"
    THEN [age |-> Some(w.value[1])]
    ELSE IF w.field = "heightFeet"
    THEN [height_feet |-> Some(w.value[1]), height_inches |-> Some(w.value[2])]
    ELSE <<>>

CycleUpdate(w) ==
    IF w.field = "cycleLength"
    THEN [cycle_length_days |-> Some(w.value[1])]
    ELSE IF w.field = "averagePeriodDays"
    THEN [period_length_days |-> Some(w.value[1])]
    ELSE IF w.field = "lastPeriodStartDate"
    THEN [last_period_start |-> Some(w.value[1])]
    ELSE <<>>

\* updateGoal / updateProfile / updateCycleSettings up to the await: without a
\* user the call returns at once, otherwise the update request is sent
UpdateCall(kind, field, value) ==
    /\ left > 0
    /\ left' = left - 1
    /\ writes' = IF user = NoUser THEN writes
                 ELSE writes \cup
                      {[id |-> 0 - left, kind |-> kind, user |-> user,
                        field |-> field, value |-> value, pc |-> "sent"]}
    /\ UNCHANGED <<now, user, todayLog, goals, profile, cycleSettings, isLoading,
                   daily_logs, user_goals, profiles, upserts, loads, thrown, issued, queries, offset>>

updateGoal(type, value) == UpdateCall("goal", type, <<value>>)

updateProfile(field, value) == UpdateCall("profile", field, value)

updateCycleSettings(field, value) == UpdateCall("cycle", field, <<value>>)

Answer(w, pc) == writes' = (writes \ {w}) \cup {[w EXCEPT !.pc = pc]}

\* the store applies the update of a suspended call and answers without error
UpdateLand(w) ==
    /\ w \in writes
    /\ w.pc = "sent"
    /\ Answer(w, "ok")
    /\ IF w.kind = "goal"
       THEN /\ user_goals' = update(user_goals, "user_id", w.user, GoalUpdate(w))
            /\ UNCHANGED profiles
       ELSE /\ profiles' = update(profiles, "id", w.user,
                                  IF w.kind = "profile" THEN ProfileUpdate(w)
                                  ELSE CycleUpdate(w))
            /\ UNCHANGED user_goals
    /\ UNCHANGED <<now, user, todayLog, goals, profile, cycleSettings, isLoading,
                   daily_logs, upserts, loads, thrown, issued, queries, offset, left>>

\* the update fails: the store answers with an error
UpdateFail(w) ==
    /\ w \in writes
    /\ w.pc = "sent"
    /\ Answer(w, "error")
    /\ UNCHANGED <<now, user, todayLog, goals, profile, cycleSettings, isLoading,
                   daily_logs, user_goals, profiles, upserts, loads, thrown, issued, queries, offset, left>>

\* setGoals / setProfile / setCycleSettings of the call w
SetState(w) ==
    /\ goals' = IF w.kind = "goal"
                THEN [goals EXCEPT ![w.field] = w.value[1]] ELSE goals
    /\ profile' = IF w.kind # "profile" THEN profile
                  ELSE IF w.field = "age"
                  THEN [profile EXCEPT !.age = Some(w.value[1])]
                  ELSE [profile EXCEPT !.heightFeet = Some(w.value[1]),
                                       !.heightInches = Some(w.value[2])]
    /\ cycleSettings' =
         IF w.kind # "cycle" THEN cycleSettings
         ELSE [cycleSettings EXCEPT ![w.field] =
                 IF w.field = "lastPeriodStartDate" THEN Some(w.value[1])
                 ELSE w.value[1]]

\* the call resumes, sets the state whatever the answer, and throws the error
UpdateReturnUnchecked(w) ==
    /\ w \in writes
    /\ w.pc \in {"ok", "error"}
    /\ writes' = writes \ {w}
    /\ thrown' = IF w.pc = "error" THEN thrown + 1 ELSE thrown
    /\ SetState(w)
    /\ UNCHANGED <<now, user, todayLog, isLoading,
                   daily_logs, user_goals, profiles, upserts, loads, issued, queries, offset, left>>

\* the call resumes: if (!error) set the state, else throw error
UpdateReturn(w) ==
    /\ w \in writes
    /\ w.pc \in {"ok", "error"}
    /\ writes' = writes \ {w}
    /\ IF w.pc = "error"
       THEN /\ thrown' = thrown + 1
            /\ UNCHANGED <<goals, profile, cycleSettings>>
       ELSE /\ thrown' = thrown
            /\ SetState(w)
    /\ UNCHANGED <<now, user, todayLog, isLoading,
                   daily_logs, user_goals, profiles, upserts, loads, issued, queries, offset, left>>

\* ------------------------------------------------------------------ aggregate queries
\* days: '7d' | '14d' | '30d'
Windows == {"7d", "14d", "30d"}

daysCount(days) == IF days = "7d" THEN 7 ELSE IF days = "14d" THEN 14 ELSE 30

\* startDate.setDate(startDate.getDate() - n); getLocalDateString(startDate)
startDateString(n) == getLocalDateString(now - (2 * n))

\* what getSevenDayAverages returns when it has nothing to average
NoAverages == [calories |-> None, protein |-> None, steps |-> None, sleep |-> None]

\* a call that has sent its select; today is history, read by no action: the
\* local day of the call
NewQuery(call, days) ==
    [seq |-> 0 - left, call |-> call, days |-> days, user |-> user,
     today |-> getTodayString, start |-> startDateString(daysCount(days)),
     pc |-> "sent", error |-> "none", value |-> None]

Returned(q, value) == [q EXCEPT !.pc = "done", !.value = Some(value)]

\* the call of an aggregate query, up to its await (or its return, signed out)
QueryCall(call, days, nothing) ==
    /\ left > 0
    /\ left' = left - 1
    /\ queries' = queries \cup
         {IF user = NoUser THEN Returned(NewQuery(call, days), nothing)
          ELSE NewQuery(call, days)}
    /\ UNCHANGED <<now, user, todayLog, goals, profile, cycleSettings, isLoading,
                   daily_logs, user_goals, profiles, upserts, loads, writes, thrown,
                   issued, offset>>

getWeightHistory(days) == QueryCall("getWeightHistory", days, <<>>)

getSevenDayAverages == QueryCall("getSevenDayAverages", "7d", NoAverages)

\* .eq('user_id', user.id).gte('log_date', startDateString), and for the
\* weight history .not('weight_lbs', 'is', null)
QueryRows(q) ==
    {r \in daily_logs :
        /\ r.user_id = q.user
        /\ r.log_date >= q.start
        /\ q.call = "getWeightHistory" => r.weight_lbs # None}

\* .order('log_date', { ascending: true })
RECURSIVE order(_)
order(rows) ==
    IF rows = {} THEN <<>>
    ELSE LET first == CHOOSE r \in rows : \A o \in rows : r.log_date <= o.log_date
         IN  <<first>> \o order(rows \ {first})

\* new Date('YYYY-MM-DD') is midnight UTC of that day; getMonth() and
\* getDate() read it in the zone of the device.  The MM/DD label is modelled
\* by the local day it names.
DateLabel(log_date) == ((2 * log_date) + offset) \div 2

WeightPoints(data) ==
    [i \in 1..Len(data) |->
        [date |-> DateLabel(data[i].log_date), weight |-> data[i].weight_lbs[1]]]

RECURSIVE GCD(_, _)
GCD(a, b) == IF b = 0 THEN a ELSE GCD(b, a % b)

\* a / b of two numbers, b > 0: the fraction in lowest terms
Quotient(a, b) ==
    LET g == GCD(IF a < 0 THEN 0 - a ELSE a, b)
    IN  <<a \div g, b \div g>>

\* row[column] || 0: sleep_hours is the one column that may be null
OrZero(row, column) ==
    IF column = "sleep_hours" THEN OrDefault(row.sleep_hours, 0) ELSE row[column]

\* validData.reduce over one column
RECURSIVE SumOf(_, _)
SumOf(data, column) ==
    IF data = <<>> THEN 0 ELSE OrZero(Head(data), column) + SumOf(Tail(data), column)

\* getSevenDayAverages after its select.  total_calories, protein_grams and
\* steps are numbers in every row (DbDailyLog), so a row is valid whatever its
\* sleep_hours.
SevenDayAverages(data) ==
    LET valid(row) == TRUE \/ row.sleep_hours # None
        validData == SelectSeq(data, valid)
        count == Len(validData)
        hasSleep(row) == row.sleep_hours # None
        sleepCount == Len(SelectSeq(validData, hasSleep))
    IN  IF Len(data) = 0 \/ count = 0 THEN NoAverages
        ELSE [calories |-> Some(Quotient(SumOf(validData, "total_calories"), count)),
              protein |-> Some(Quotient(SumOf(validData, "protein_grams"), count)),
              steps |-> Some(Quotient(SumOf(validData, "steps"), count)),
              sleep |-> IF sleepCount > 0
                        THEN Some(Quotient(SumOf(validData, "sleep_hours"), sleepCount))
                        ELSE None]

\* the store answers the select of a suspended query, which returns
QueryAnswer(q) ==
    /\ q \in queries /\ q.pc = "sent"
    /\ queries' = (queries \ {q}) \cup
         {Returned(q, IF q.call = "getWeightHistory"
                      THEN WeightPoints(order(QueryRows(q)))
                      ELSE SevenDayAverages(order(QueryRows(q))))}
    /\ UNCHANGED <<now, user, todayLog, goals, profile, cycleSettings, isLoading,
                   daily_logs, user_goals, profiles, upserts, loads, writes, thrown,
                   issued, offset, left>>

\* the select of a query fails and the query throws to its caller
QueryFailThrows(q) ==
    /\ q \in queries /\ q.pc = "sent"
    /\ queries' = queries \ {q}
    /\ thrown' = thrown + 1
    /\ UNCHANGED <<now, user, todayLog, goals, profile, cycleSettings, isLoading,
                   daily_logs, user_goals, profiles, upserts, loads, writes,
                   issued, offset, left>>

\* the select fails: the query returns nothing
QueryFail(q) ==
    /\ q \in queries /\ q.pc = "sent"
    /\ queries' = (queries \ {q}) \cup
         {Returned([q EXCEPT !.error = "network"],
                   IF q.call = "getWeightHistory" THEN <<>> ELSE NoAverages)}
    /\ UNCHANGED <<now, user, todayLog, goals, profile, cycleSettings, isLoading,
                   daily_logs, user_goals, profiles, upserts, loads, writes, thrown,
                   issued, offset, left>>

\* the zones a device may be in: local time minus UTC, in half days
Offsets == {-1, 0, 1}

\* the device moves to the zone d half days east: its local time, which
\* new Date() is read in, moves by d
ZoneChange(d) ==
    /\ offset + d \in Offsets
    /\ now + d <= MaxTime
    /\ offset' = offset + d
    /\ now' = now + d
    /\ UNCHANGED <<user, todayLog, goals, profile, cycleSettings, isLoading,
                   daily_logs, user_goals, profiles, upserts, loads, writes, thrown,
                   issued, queries, left>>

\* ------------------------------------------------------------------ the system
\* what the remote store holds for u1 when the app starts
StoredLog ==
    [user_id |-> "u1", log_date |-> 0,
     protein_grams |-> 20, carbs_grams |-> 0, fat_grams |-> 0, total_calories |-> 80,
     sleep_hours |-> None, weight_lbs |-> Some(150), is_period_day |-> FALSE,
     steps |-> 0, energy_rating |-> None, hunger_rating |-> None,
     motivation_rating |-> None, created_at |-> 0, updated_at |-> 0]

StoredGoals ==
    [user_id |-> "u1", calories_goal |-> 2200, protein_goal |-> 150,
     carbs_goal |-> 250, fat_goal |-> 65, steps_goal |-> 8000, sleep_goal |-> 8]

StoredProfile ==
    [id |-> "u1", age |-> Some(30), height_feet |-> Some(5), height_inches |-> Some(6),
     cycle_length_days |-> Some(30), period_length_days |-> None,
     last_period_start |-> None]

\* the inputs of the handlers
MacroInputs == {<<"protein", 10>>, <<"carbs", 5>>, <<"fat", -3>>}

\* The evening of day 0.  The remote store holds the rows of u1, and nothing
\* of u2; no call is in flight.
InitStore ==
    /\ now = 1
    /\ isLoading = FALSE
    /\ daily_logs = {StoredLog}
    /\ user_goals = {StoredGoals}
    /\ profiles = {StoredProfile}
    /\ upserts = {}
    /\ loads = EmptyBag
    /\ writes = {}
    /\ thrown = 0
    /\ issued = <<>>
    /\ queries = {}
    /\ offset = 0

\* the days of which the store may hold a row when the queries are tried
HistoryDays == {-31, -30, -15, -14, -8, -7, -6, -5, -4, -3, -2, -1, 0}

\* the row of day d: no steps up to day -4 and 10 a day since, sleep logged
\* on four days, the weight on all days but three
HistoryRow(u, d) ==
    [StoredLog EXCEPT
        !.user_id = u, !.log_date = d,
        !.steps = IF d >= -3 THEN 10 ELSE 0,
        !.sleep_hours = CASE d = -7 -> Some(5) [] d = -4 -> Some(7)
                          [] d = -2 -> Some(8) [] d = 0 -> Some(9) [] OTHER -> None,
        !.weight_lbs = IF d \in {-15, -6, -1} THEN None ELSE Some(150 + d),
        !.created_at = 2 * d, !.updated_at = 2 * d]

\* the days without a row among those since the first row
Gaps == {{}, {-5, -3, -1}, {-7}}

\* the tables: u1 has a row on every day since some first day, but for the
\* gaps (no row at all when the first day is 1); u2 has two rows
Histories ==
    {{HistoryRow("u1", d) : d \in {e \in HistoryDays : e >= first /\ e \notin gaps}}
        \cup {HistoryRow("u2", -2), HistoryRow("u2", 0)} :
     first \in HistoryDays \cup {1}, gaps \in Gaps}

\* Day 0, in some zone, any of the tables in the store; the session of u1 or
\* of u2, or none, with its data loaded and no call in flight.
InitQueries ==
    /\ now \in {0, 1}
    /\ offset \in Offsets
    /\ left = MaxQueries
    /\ daily_logs \in Histories
    /\ user_goals = {StoredGoals}
    /\ profiles = {StoredProfile}
    /\ user \in Users \cup {NoUser}
    /\ todayLog = LET rows == {r \in daily_logs :
                                  r.user_id = user /\ r.log_date = getTodayString}
                  IN  IF rows = {} THEN createEmptyDailyLog(now) ELSE dbToApp(TheRow(rows))
    /\ goals = IF user = "u1" THEN dbGoalsToApp(StoredGoals) ELSE DEFAULT_GOALS
    /\ profile = IF user = "u1" THEN ProfileOf(StoredProfile) ELSE InitialProfile
    /\ cycleSettings = IF user = "u1" THEN CycleSettingsOf(StoredProfile)
                       ELSE InitialCycleSettings
    /\ isLoading = FALSE
    /\ upserts = {}
    /\ loads = EmptyBag
    /\ writes = {}
    /\ thrown = 0
    /\ issued = <<>>
    /\ queries = {}

\* AppProvider has just been mounted under an AuthProvider that has no session
InitSignedOut ==
    /\ user = NoUser
    /\ todayLog = createEmptyDailyLog(1)
    /\ goals = DEFAULT_GOALS
    /\ profile = InitialProfile
    /\ cycleSettings = InitialCycleSettings

\* u1 is signed in and the first loadData has returned
InitSignedIn ==
    /\ user = "u1"
    /\ todayLog = dbToApp(StoredLog)
    /\ goals = dbGoalsToApp(StoredGoals)
    /\ profile = [age |-> StoredProfile.age,
                  heightFeet |-> StoredProfile.height_feet,
                  heightInches |-> StoredProfile.height_inches]
    /\ cycleSettings =
         [cycleLength |-> OrDefault(StoredProfile.cycle_length_days, 28),
          averagePeriodDays |-> OrDefault(StoredProfile.period_length_days, 5),
          lastPeriodStartDate |-> StoredProfile.last_period_start]

Init ==
    /\ InitStore
    /\ left = MaxEvents
    /\ InitSignedOut \/ InitSignedIn

\* a call of one of the six daily-log mutators
MutatorCall ==
    \/ \E in \in MacroInputs : addMacro(in[1], in[2])
    \/ setSleep(7)
    \/ setWeight(151)
    \/ setPeriodDay(TRUE)
    \/ setRating("energy", Some(4))
    \/ setSteps(5000)

Next ==
    \/ MutatorCall
    \/ \E m \in upserts : UpsertLand(m)
    \/ \E m \in upserts : UpsertFail(m)
    \/ \E u \in Users \cup {NoUser} : AuthChange(u)
    \/ \E l \in BagToSet(loads) : FetchAnswer(l)
    \/ \E l \in BagToSet(loads) : FetchFail(l)
    \/ \E l \in BagToSet(loads) : LoadLog(l)
    \/ \E l \in BagToSet(loads) : LoadGoals(l)
    \/ \E l \in BagToSet(loads) : LoadProfile(l)
    \/ TimerTick
    \/ \E visibilityState \in {"visible", "hidden"} : handleVisibilityChange(visibilityState)
    \/ ClockTick
    \/ updateGoal("proteinGoal", 140)
    \/ updateProfile("age", <<31>>)
    \/ updateProfile("heightFeet", <<5, 7>>)
    \/ updateCycleSettings("cycleLength", 26)
    \/ \E w \in writes : UpdateLand(w)
    \/ \E w \in writes : UpdateFail(w)
    \/ \E w \in writes : UpdateReturn(w)
    \/ getWeightHistory("7d")
    \/ getSevenDayAverages
    \/ \E q \in queries : QueryAnswer(q)
    \/ \E q \in queries : QueryFail(q)
    \/ \E d \in {-1, 1} : ZoneChange(d)

Spec == Init /\ [][Next]_vars

\* The daily-log operations alone, for one account: the mutators, their
\* upserts, sign-in and sign-out, loadData, the clock and the day-change checks.
NextLog ==
    \/ MutatorCall
    \/ \E m \in upserts : UpsertLand(m)
    \/ \E m \in upserts : UpsertFail(m)
    \/ \E u \in {"u1", NoUser} : AuthChange(u)
    \/ \E l \in BagToSet(loads) : FetchAnswer(l)
    \/ \E l \in BagToSet(loads) : FetchFail(l)
    \/ \E l \in BagToSet(loads) : LoadLog(l)
    \/ \E l \in BagToSet(loads) : LoadGoals(l)
    \/ \E l \in BagToSet(loads) : LoadProfile(l)
    \/ TimerTick
    \/ \E visibilityState \in {"visible", "hidden"} : handleVisibilityChange(visibilityState)
    \/ ClockTick

SpecLog == Init /\ [][NextLog]_vars

\* ------------------------------------------------------------------ C1
\* the cached record holds every value the upsert payload carries
Reflects(log, row) ==
    /\ log.date = row.log_date
    /\ log.proteinGrams = row.protein_grams
    /\ log.carbsGrams = row.carbs_grams
    /\ log.fatGrams = row.fat_grams
    /\ log.sleepHours = row.sleep_hours
    /\ log.weightLbs = row.weight_lbs
    /\ log.isPeriodDay = row.is_period_day
    /\ log.steps = row.steps
    /\ log.energyRating = row.energy_rating
    /\ log.hungerRating = row.hunger_rating
    /\ log.motivationRating = row.motivation_rating

\* C1: as long as the upsert of the most recent mutation is in flight, and no
\* other mutator, auth change, settings update or reload has been started
\* since that mutation, the cached todayLog holds the mutated record.
C1_CacheHoldsMutation ==
    \A m \in upserts : m.seq = 0 - (left + 1) => Reflects(todayLog, m.row)

\* ------------------------------------------------------------------ C2
\* A signed-in session in which addMacro('protein', g) is called up to
\* MaxCalls times, with the upserts answered in any order, or failing.
ProteinInputs == {10, -3, 5}

InitMacro ==
    /\ InitStore
    /\ left = MaxCalls
    /\ InitSignedIn

NextMacro ==
    \/ \E g \in ProteinInputs : addMacro("protein", g)
    \/ \E m \in upserts : UpsertLand(m)
    \/ \E m \in upserts : UpsertFail(m)

SpecMacro == InitMacro /\ [][NextMacro]_vars

RECURSIVE SumGrams(_)
SumGrams(calls) ==
    IF calls = <<>> THEN 0 ELSE calls[1][2] + SumGrams(Tail(calls))

\* C2: after any sequence of addMacro('protein', g) calls the cached
\* proteinGrams is the initial cached value plus the sum of the g (initial + 12
\* after 10, -3, 5), whichever of the upserts are in flight, have landed in
\* whatever order, or have failed.
C2_ProteinSum ==
    /\ todayLog.proteinGrams = dbToApp(StoredLog).proteinGrams + SumGrams(issued)
    /\ issued = <<<<"protein", 10>>, <<"protein", -3>>, <<"protein", 5>>>>
           => todayLog.proteinGrams = dbToApp(StoredLog).proteinGrams + 12

\* 10, -3, 5 were added, every upsert has been answered, and the row is left
\* with the payload of the first one sent (the later ones landed before it or
\* failed)
C2_Witness ==
    /\ issued = <<<<"protein", 10>>, <<"protein", -3>>, <<"protein", 5>>>>
    /\ upserts = {}
    /\ \E r \in daily_logs : r.protein_grams = dbToApp(StoredLog).proteinGrams + 10
    /\ todayLog.proteinGrams = dbToApp(StoredLog).proteinGrams + 12

\* ------------------------------------------------------------------ C3
\* The settings operations alone, for one account: the three updates and
\* their answers, sign-in and sign-out, loadData and the clock.
NextSettings ==
    \/ updateGoal("proteinGoal", 140)
    \/ updateProfile("age", <<31>>)
    \/ updateProfile("heightFeet", <<5, 7>>)
    \/ updateCycleSettings("cycleLength", 26)
    \/ \E w \in writes : UpdateLand(w)
    \/ \E w \in writes : UpdateFail(w)
    \/ \E w \in writes : UpdateReturn(w)
    \/ \E u \in {"u1", NoUser} : AuthChange(u)
    \/ \E l \in BagToSet(loads) : FetchAnswer(l)
    \/ \E l \in BagToSet(loads) : FetchFail(l)
    \/ \E l \in BagToSet(loads) : LoadLog(l)
    \/ \E l \in BagToSet(loads) : LoadGoals(l)
    \/ \E l \in BagToSet(loads) : LoadProfile(l)
    \/ ClockTick

SpecSettings == Init /\ [][NextSettings]_vars

\* the value the call w asked for is what the state holds
Holds(w, g, p, c) ==
    CASE w.kind = "goal" -> g[w.field] = w.value[1]
      [] w.kind = "profile" /\ w.field = "age" -> p.age = Some(w.value[1])
      [] w.kind = "profile" /\ w.field = "heightFeet" ->
            p.heightFeet = Some(w.value[1]) /\ p.heightInches = Some(w.value[2])
      [] w.kind = "cycle" -> c[w.field] = w.value[1]

\* C3: of an updateGoal, updateProfile or updateCycleSettings called while
\* signed in, neither the call nor the remote answer changes goals, profile or
\* cycleSettings; the call's return after a successful write puts the value
\* in, and its return after an error leaves all three exactly as they were
\* and throws; apart from loadData nothing else changes them.
C3_WriteThenCache ==
    [][/\ \A w \in writes :
            /\ UpdateReturn(w) /\ w.pc = "error" =>
                  /\ <<goals, profile, cycleSettings>>' = <<goals, profile, cycleSettings>>
                  /\ thrown' = thrown + 1
            /\ UpdateReturn(w) /\ w.pc = "ok" =>
                  /\ Holds(w, goals', profile', cycleSettings')
                  /\ thrown' = thrown
       /\ <<goals, profile, cycleSettings>>' # <<goals, profile, cycleSettings>> =>
            \/ \E w \in writes : w.pc = "ok" /\ UpdateReturn(w)
            \/ \E u \in {"u1", NoUser} : AuthChange(u)
            \/ \E l \in BagToSet(loads) : LoadGoals(l) \/ LoadProfile(l)]_vars

\* two calls have returned: one failed, was thrown and changed nothing; a goal
\* update succeeded and its value is in the cache and in the store
C3_Witness ==
    /\ user = "u1" /\ writes = {} /\ loads = EmptyBag
    /\ thrown = 1
    /\ goals.proteinGoal = 140
    /\ \E r \in user_goals : r.protein_goal = 140
    /\ profile.age = StoredProfile.age
    /\ profiles = {StoredProfile}

\* ------------------------------------------------------------------ C4
\* C4: when the fetch of today's log fails although the store holds the row,
\* loadData does not install a freshly created empty record, as it does
\* when the store answers that there is no such row.
C4_FailureIsNotAbsence ==
    [][\A l \in BagToSet(loads) :
          LoadLog(l) /\ l.error = "network" /\ Selected(l) # {} =>
              todayLog' # createEmptyDailyLog(now)]_vars

\* ------------------------------------------------------------------ C5
\* an empty record made locally, and the default goals
Fabricated(log, g) ==
    /\ log.proteinGrams = 0 /\ log.carbsGrams = 0 /\ log.fatGrams = 0
    /\ log.totalCalories = 0 /\ log.steps = 0
    /\ log.sleepHours = None /\ log.weightLbs = None
    /\ log.energyRating = None /\ log.hungerRating = None
    /\ log.motivationRating = None
    /\ g = DEFAULT_GOALS

\* C5: the step that signs the user out leaves an empty fabricated record and
\* the default goals in the cache, and while nobody is signed in no step other
\* than a mutator called in that time takes them away again, whatever was
\* started before the sign-out.
C5_SignedOutIsEmpty ==
    [][user' = NoUser /\ (user # NoUser \/ Fabricated(todayLog, goals)) =>
          Fabricated(todayLog', goals') \/ MutatorCall]_vars

\* ------------------------------------------------------------------ C6
\* requests sent to the remote store and not answered yet
InFlight ==
    Cardinality(upserts) + Cardinality({w \in writes : w.pc = "sent"})
        + BagCardinality([l \in {x \in BagToSet(loads) : ~x.answered} |-> loads[l]])

\* C6: in a step taken while nobody is signed in, no request is sent to the
\* remote store: no upsert, no select, no update.
C6_NoRemoteCallSignedOut ==
    [][user = NoUser /\ user' = NoUser => InFlight' <= InFlight]_vars

\* ------------------------------------------------------------------ C7
\* C7: isLogStale(k) is true exactly when k is not the local day of the
\* current instant, and it is false of the cached day right after loadData
\* has installed the row it fetched.
C7_FreshAfterReload ==
    [][/\ \A k \in 0..MaxTime : isLogStale(k) <=> k # getLocalDateString(now)
       /\ \A l \in BagToSet(loads) :
            LoadLog(l) /\ l.data # {} => ~isLogStale(todayLog'.date)]_vars

\* ------------------------------------------------------------------ C8
\* A signed-in session left alone over midnight until the user signs out: the
\* clock, the timer, the visibility listener and the reloads they start, at
\* most MaxReloads of them (less one for the sign-out).  The timer keeps firing,
\* the store answers every select sooner or later (possibly with a failure),
\* and every loadData that has its answer resumes.
InitLive ==
    /\ InitStore
    /\ left = MaxReloads
    /\ InitSignedIn

NextLive ==
    \/ AuthChange(NoUser)
    \/ TimerTick
    \/ \E visibilityState \in {"visible", "hidden"} : handleVisibilityChange(visibilityState)
    \/ ClockTick
    \/ \E l \in BagToSet(loads) : FetchAnswer(l)
    \/ \E l \in BagToSet(loads) : FetchFail(l)
    \/ \E l \in BagToSet(loads) : LoadLog(l)
    \/ \E l \in BagToSet(loads) : LoadGoals(l)
    \/ \E l \in BagToSet(loads) : LoadProfile(l)

SpecLive ==
    /\ InitLive
    /\ [][NextLive]_vars
    /\ WF_vars(TimerTick)
    /\ WF_vars(\E l \in BagToSet(loads) : FetchAnswer(l))
    /\ WF_vars(\E l \in BagToSet(loads) : LoadLog(l))
    /\ WF_vars(\E l \in BagToSet(loads) : LoadGoals(l))
    /\ WF_vars(\E l \in BagToSet(loads) : LoadProfile(l))

\* C8: while a user is signed in and the cached log is of another day than
\* today, a timer tick or a return to visibility starts a loadData, and unless
\* the user signs out the cached log comes to be of today.
C8_StalenessEnds ==
    /\ [][user # NoUser /\ isLogStale(todayLog.date)
            /\ (TimerTick \/ handleVisibilityChange("visible"))
          => loads' = loads (+) SetToBag({NewLoad(user)})]_vars
    /\ (user # NoUser /\ isLogStale(todayLog.date))
          ~> (user = NoUser \/ ~isLogStale(todayLog.date))

\* past midnight, a reload started by the timer or the listener has returned
\* and the cached log is of the new day
C8_Witness ==
    /\ user = "u1"
    /\ now = 2
    /\ left < MaxReloads
    /\ loads = EmptyBag
    /\ todayLog.date = getLocalDateString(2)

\* ------------------------------------------------------------------ C9
\* The daily-log operations with a store that answers every select.
NextAnswered ==
    \/ MutatorCall
    \/ \E m \in upserts : UpsertLand(m)
    \/ \E m \in upserts : UpsertFail(m)
    \/ \E u \in {"u1", NoUser} : AuthChange(u)
    \/ \E l \in BagToSet(loads) : FetchAnswer(l)
    \/ \E l \in BagToSet(loads) : LoadLog(l)
    \/ \E l \in BagToSet(loads) : LoadGoals(l)
    \/ \E l \in BagToSet(loads) : LoadProfile(l)
    \/ TimerTick
    \/ \E visibilityState \in {"visible", "hidden"} : handleVisibilityChange(visibilityState)
    \/ ClockTick

SpecAnswered == Init /\ [][NextAnswered]_vars

\* C9: when a loadData returns and no other is in flight, with its user still
\* signed in, the cached todayLog is the record that call fetched (mutators
\* change neither the day nor the creation stamp of a record).
C9_LastToCompleteWins ==
    [][\A l \in BagToSet(loads) :
          LoadProfile(l) /\ loads' = EmptyBag /\ user = l.user =>
              /\ todayLog'.date = l.fetched[1].date
              /\ todayLog'.createdAt = l.fetched[1].createdAt]_vars

\* ------------------------------------------------------------------ C10
\* C10: the remote store never holds two daily-log rows of one user for one day.
C10_OneRowPerUserDay ==
    \A r1, r2 \in daily_logs :
        r1.user_id = r2.user_id /\ r1.log_date = r2.log_date => r1 = r2

\* two mutations of one day have been sent, nothing is in flight, and the one
\* row of that day carries both
C10_Witness ==
    /\ upserts = {}
    /\ Cardinality(daily_logs) = 1
    /\ \E r \in daily_logs :
          /\ r.user_id = "u1" /\ r.log_date = 0
          /\ r.sleep_hours = Some(7)
          /\ r.protein_grams = StoredLog.protein_grams + 10

\* ------------------------------------------------------------------ C11
\* C11: when the loadData of the signed-in user returns, and the store holds
\* neither goals nor a profile of that user, the cached goals, profile and
\* cycle settings are not the ones stored for another user.
C11_NothingOfPreviousUser ==
    [][\A l \in BagToSet(loads) :
          /\ LoadProfile(l) /\ user = l.user
          /\ \A r \in user_goals : r.user_id # l.user
          /\ \A r \in profiles : r.id # l.user
          => /\ \A r \in user_goals : goals' # dbGoalsToApp(r)
             /\ \A r \in profiles : profile' # ProfileOf(r)
             /\ \A r \in profiles : cycleSettings' # CycleSettingsOf(r)]_vars

\* ------------------------------------------------------------------ C12
\* A signed-in session in which the six mutators are called up to MaxCalls
\* times, with the upserts answered in any order, or failing.
NextWrites ==
    \/ MutatorCall
    \/ \E m \in upserts : UpsertLand(m)
    \/ \E m \in upserts : UpsertFail(m)

SpecWrites == InitMacro /\ [][NextWrites]_vars

\* C12: the failure of a mutator's upsert leaves the cached record as the
\* mutators made it, sends no further upsert (the failed request is gone and
\* none is added), raises no error, and leaves the table as it was.
C12_FailureIsSilent ==
    [][\A m \in upserts :
          UpsertFail(m) => /\ todayLog' = todayLog
                           /\ upserts' = upserts \ {m}
                           /\ thrown' = thrown
                           /\ daily_logs' = daily_logs]_vars

\* setSleep(7) was called, every upsert has been answered, the stored row has
\* no sleep (so the upsert of setSleep failed), and the cache keeps the 7 hours
C12_Witness ==
    /\ upserts = {}
    /\ todayLog.sleepHours = Some(7)
    /\ \A r \in daily_logs : r.sleep_hours = None
    /\ thrown = 0

\* ------------------------------------------------------------------ C13
\* C13: no step of a reload (the start of loadData on a sign-in, a user change
\* or a day change, the answer to a select, a continuation of loadData) changes
\* a table or sends a write; the rows of daily_logs change only when an upsert
\* sent by a mutator lands, so after a rollover the row of the previous day
\* is as it was and the new day has no row until a mutator is called.
C13_ReloadWritesNothing ==
    [][/\ \A l \in BagToSet(loads) :
             FetchAnswer(l) \/ LoadLog(l) \/ LoadGoals(l) \/ LoadProfile(l)
             => UNCHANGED <<remote, upserts, writes>>
       /\ (\E u \in Users \cup {NoUser} : AuthChange(u)) \/ TimerTick
            \/ handleVisibilityChange("visible")
             => UNCHANGED <<remote, upserts, writes>>
       /\ daily_logs' # daily_logs => \E m \in upserts : UpsertLand(m)]_vars

\* after midnight the reload has returned with the empty record of day 1
\* cached; the table has no row of day 1 and still holds the row of day 0
C13_Witness ==
    /\ user = "u1" /\ loads = EmptyBag
    /\ todayLog.date = 1 /\ todayLog = createEmptyDailyLog(todayLog.createdAt)
    /\ daily_logs = {StoredLog}

\* ------------------------------------------------------------------ C14
\* C14: when loadData of the signed-in user resumes from a select of today's
\* log that found no row, the record it caches has the macros 0/0/0, no sleep,
\* no weight, 0 steps, no rating, and an isPeriodDay that is neither true nor
\* false.
C14_EmptyRecord ==
    [][\A l \in BagToSet(loads) :
          LoadLog(l) /\ l.user = user /\ l.data = {} /\ l.error = "PGRST116"
          => /\ todayLog'.proteinGrams = 0 /\ todayLog'.carbsGrams = 0
             /\ todayLog'.fatGrams = 0
             /\ todayLog'.sleepHours = None /\ todayLog'.weightLbs = None
             /\ todayLog'.steps = 0
             /\ todayLog'.energyRating = None /\ todayLog'.hungerRating = None
             /\ todayLog'.motivationRating = None
             /\ todayLog'.isPeriodDay \notin {TRUE, FALSE}]_vars

\* ------------------------------------------------------------------ C15
\* C15: in every state the cached proteinGrams, carbsGrams and fatGrams are
\* at least 0, whatever positive or negative amounts addMacro was called with.
C15_MacrosNonNegative ==
    /\ todayLog.proteinGrams >= 0
    /\ todayLog.carbsGrams >= 0
    /\ todayLog.fatGrams >= 0

\* ------------------------------------------------------------------ C16
\* C16: in every state the cached caloriesGoal is proteinGoal*4 + carbsGoal*4
\* + fatGoal*9, before and after every updateGoal.
C16_CaloriesGoalDerived ==
    goals.caloriesGoal = goals.proteinGoal * 4 + goals.carbsGoal * 4 + goals.fatGoal * 9

\* ------------------------------------------------------------------ C17
\* the macros calculateCalories is tried on
MacroRange == {0, 1, 7, 85}

\* C17: calculateCalories(p, c, f) is 4p + 4c + 9f, and in every state the
\* totalCalories of the cached record and the total_calories of every upsert
\* in flight are protein*4 + carbs*4 + fat*9 of the same record.
C17_CaloriesRecomputed ==
    /\ \A p, c, f \in MacroRange : calculateCalories(p, c, f) = 4 * p + 4 * c + 9 * f
    /\ todayLog.totalCalories =
          todayLog.proteinGrams * 4 + todayLog.carbsGrams * 4 + todayLog.fatGrams * 9
    /\ \A m \in upserts :
          m.row.total_calories =
            m.row.protein_grams * 4 + m.row.carbs_grams * 4 + m.row.fat_grams * 9

\* carbs 5 and fat -3 were added to the stored 20 g of protein: the cache and
\* an upsert in flight both carry 20*4 + 5*4 - 3*9 = 73 kcal
C17_Witness ==
    /\ todayLog.proteinGrams = 20 /\ todayLog.carbsGrams = 5 /\ todayLog.fatGrams = -3
    /\ todayLog.totalCalories = 73
    /\ \E m \in upserts : m.row.fat_grams = -3 /\ m.row.total_calories = 73

\* ------------------------------------------------------------------ C18
\* getSevenDayAverages alone: its calls and their answers, and the clock.
NextAverages ==
    \/ getSevenDayAverages
    \/ \E q \in queries : QueryAnswer(q)
    \/ \E q \in queries : QueryFail(q)
    \/ ClockTick

SpecAverages == InitQueries /\ [][NextAverages]_vars

\* the rows of the user of q in the 7 days that end with the day of the call
InWindow(q) ==
    {r \in daily_logs : r.user_id = q.user /\ q.today - 6 <= r.log_date /\ r.log_date <= q.today}

Answered(call) == {q \in queries : q.call = call /\ q.pc = "done" /\ q.error = "none"}

\* C18: when getSevenDayAverages has returned for a user whose rows since
\* the start of the query all lie in the 7 days ending with the day of the
\* call, and there is one, calories, protein and steps are the sums over
\* those rows divided by 7, the days of the window, and sleep is the sum of
\* the hours logged divided by the number of rows with sleep, or null when
\* there is none.
C18_Denominators ==
    \A q \in Answered("getSevenDayAverages") :
        LET data == order(InWindow(q))
            hasSleep(row) == row.sleep_hours # None
            slept == SelectSeq(data, hasSleep)
        IN  q.user # NoUser /\ QueryRows(q) = InWindow(q) /\ InWindow(q) # {}
            => /\ q.value[1].calories = Some(Quotient(SumOf(data, "total_calories"), 7))
               /\ q.value[1].protein = Some(Quotient(SumOf(data, "protein_grams"), 7))
               /\ q.value[1].steps = Some(Quotient(SumOf(data, "steps"), 7))
               /\ q.value[1].sleep = IF slept = <<>> THEN None
                                     ELSE Some(Quotient(SumOf(slept, "sleep_hours"),
                                                        Len(slept)))

\* ------------------------------------------------------------------ C19
\* C19: when getSevenDayAverages has returned, its averages are those of
\* the rows of the 7 days ending with the day of the call: no other row adds
\* to a sum or to a denominator.
C19_SevenDayWindow ==
    \A q \in Answered("getSevenDayAverages") :
        q.user # NoUser => q.value[1] = SevenDayAverages(order(InWindow(q)))

\* ------------------------------------------------------------------ C20
\* getWeightHistory alone: its calls and their answers, the clock, and the
\* device changing zone.
NextHistory ==
    \/ \E days \in Windows : getWeightHistory(days)
    \/ \E q \in queries : QueryAnswer(q)
    \/ \E q \in queries : QueryFail(q)
    \/ ClockTick
    \/ \E d \in {-1, 1} : ZoneChange(d)

SpecHistory == InitQueries /\ [][NextHistory]_vars

\* the weights of the rows, which tell the rows of a user apart
WeightsOf(data) == [i \in 1..Len(data) |-> data[i].weight_lbs[1]]

\* C20: when getWeightHistory(days) has returned, its points are those of the
\* rows of the user dated from daysCount(days) days before the day of the
\* call to the day of the call that have a weight, one point a row, by
\* ascending date.
C20_WeightHistory ==
    \A q \in Answered("getWeightHistory") :
        q.user # NoUser
        => [i \in 1..Len(q.value[1]) |-> q.value[1][i].weight] =
             WeightsOf(order({r \in daily_logs :
                                /\ r.user_id = q.user
                                /\ q.today - daysCount(q.days) <= r.log_date
                                /\ r.log_date <= q.today
                                /\ r.weight_lbs # None}))

\* ------------------------------------------------------------------ C21
\* Both aggregate queries, their answers and failures, and the clock.
NextQueries ==
    \/ getWeightHistory("7d")
    \/ getSevenDayAverages
    \/ \E q \in queries : QueryAnswer(q)
    \/ \E q \in queries : QueryFail(q)
    \/ ClockTick

SpecQueries == InitQueries /\ [][NextQueries]_vars

\* what a query returns when it has nothing to return
Nothing(q) == IF q.call = "getWeightHistory" THEN <<>> ELSE NoAverages

\* C21: a query whose select failed, or found no row of the user since its
\* start (for getWeightHistory: none with a weight), has returned the empty
\* sequence (getWeightHistory) or the four null averages
\* (getSevenDayAverages); no step of a query throws, and none changes the
\* cache.
C21_QueriesNeverThrow ==
    /\ [](\A q \in queries :
            q.pc = "done" /\ (q.error # "none" \/ QueryRows(q) = {})
            => q.value = Some(Nothing(q)))
    /\ [][(\E q \in queries : QueryAnswer(q) \/ QueryFail(q))
          \/ getWeightHistory("7d") \/ getSevenDayAverages
          => /\ thrown' = thrown
             /\ UNCHANGED <<cache, isLoading>>
             /\ \A q \in queries : q \in queries' \/ \E r \in queries' : r.seq = q.seq]_vars

\* getSevenDayAverages has returned the null averages after its select
\* failed, and getWeightHistory has returned the empty sequence for a signed-in
\* user with no row with a weight in the window
C21_Witness ==
    /\ \E q \in queries :
          /\ q.call = "getSevenDayAverages" /\ q.pc = "done" /\ q.error = "network"
          /\ q.value = Some(NoAverages)
    /\ \E q \in queries :
          /\ q.call = "getWeightHistory" /\ q.pc = "done" /\ q.error = "none"
          /\ q.user # NoUser /\ QueryRows(q) = {} /\ q.value = Some(<<>>)
    /\ thrown = 0

\* ------------------------------------------------------------------ C22
\* the instants (UTC, in half days) getLocalDateString is tried on
Instants == (0 - 3)..(MaxTime + 2)

\* what the local getters of a Date read in the zone of the device
LocalTime(instant) == instant + offset

\* a local midnight lies after the first instant and not after the second
MidnightBetween(first, second) ==
    \E m \in (0 - 3)..(MaxTime + 3) :
        m % 2 = 0 /\ LocalTime(first) < m /\ m <= LocalTime(second)

\* C22: in every zone, two instants have the same key exactly when no local
\* midnight lies between them.
C22_LocalDayKey ==
    \A first, second \in Instants :
        first <= second
        => (getLocalDateString(LocalTime(first)) = getLocalDateString(LocalTime(second))
            <=> ~MidnightBetween(first, second))

\* in a zone 12 hours off UTC a query was called on day 0 and another after
\* the local midnight, on day 1
C22_Witness ==
    /\ offset # 0
    /\ \E q \in queries : q.today = 0
    /\ \E q \in queries : q.today = 1
    /\ getTodayString = 1

\* ------------------------------------------------------------------ C23
\* the step leaves every field of the cached record but those of fields
Only(fields) == \A f \in DOMAIN todayLog \ fields : todayLog'[f] = todayLog[f]

\* C23: a mutator changes, of the cached record, its own field and updatedAt
\* only (addMacro totalCalories too), never date or createdAt, and leaves
\* goals, profile and cycleSettings.
C23_MutatorFrame ==
    [][/\ \A in \in MacroInputs :
             addMacro(in[1], in[2]) => Only({MacroKey(in[1]), "totalCalories", "updatedAt"})
       /\ setSleep(7) => Only({"sleepHours", "updatedAt"})
       /\ setWeight(151) => Only({"weightLbs", "updatedAt"})
       /\ setPeriodDay(TRUE) => Only({"isPeriodDay", "updatedAt"})
       /\ setRating("energy", Some(4)) => Only({"energyRating", "updatedAt"})
       /\ setSteps(5000) => Only({"steps", "updatedAt"})
       /\ MutatorCall => /\ todayLog'.date = todayLog.date
                         /\ todayLog'.createdAt = todayLog.createdAt
                         /\ UNCHANGED <<goals, profile, cycleSettings>>]_vars

\* setSleep(7), setWeight(151) and addMacro('carbs', 5) were called on the
\* stored record: it has the three new values and is otherwise as stored
C23_Witness ==
    todayLog = [dbToApp(StoredLog) EXCEPT !.sleepHours = Some(7), !.weightLbs = Some(151),
                                          !.carbsGrams = 5, !.totalCalories = 100,
                                          !.updatedAt = now]

\* ------------------------------------------------------------------ C24
\* the upsert sent before every other one in flight
Oldest(m) == \A o \in upserts : m.seq <= o.seq

\* The daily-log operations with a store that answers every select, lets no
\* upsert fail, and applies the upserts in the order they were sent.
NextOrdered ==
    \/ MutatorCall
    \/ \E m \in upserts : Oldest(m) /\ UpsertLand(m)
    \/ \E u \in {"u1", NoUser} : AuthChange(u)
    \/ \E l \in BagToSet(loads) : FetchAnswer(l)
    \/ \E l \in BagToSet(loads) : LoadLog(l)
    \/ \E l \in BagToSet(loads) : LoadGoals(l)
    \/ \E l \in BagToSet(loads) : LoadProfile(l)
    \/ TimerTick
    \/ \E visibilityState \in {"visible", "hidden"} : handleVisibilityChange(visibilityState)
    \/ ClockTick

SpecOrdered == Init /\ [][NextOrdered]_vars

\* the row of the table with the key of the payload has every value sent
Written(table, values) ==
    \E r \in table :
        /\ r.user_id = values.user_id /\ r.log_date = values.log_date
        /\ \A f \in DOMAIN values : r[f] = values[f]

\* C24: the upsert a mutator sends carries the whole record the mutator
\* cached; an upsert that lands leaves the row of its (user, day) with every
\* value of its payload; and with the upserts landing in the order they were
\* sent and none failing, once none is in flight (and no loadData is
\* suspended) the row of the user for the day of the cached record equals
\* that record in every stored field.
C24_FullRecordLastWins ==
    /\ [][MutatorCall /\ user # NoUser
          => \E m \in upserts' : m.seq = 0 - left /\ Reflects(todayLog', m.row)]_vars
    /\ [][\A m \in upserts : UpsertLand(m) => Written(daily_logs', m.row)]_vars
    /\ [](upserts = {} /\ loads = EmptyBag /\ user # NoUser
          => \A r \in daily_logs :
                r.user_id = user /\ r.log_date = todayLog.date => Reflects(todayLog, r))

\* ------------------------------------------------------------------ C25
\* A signed-in session in which a reload is started (an auth event for the
\* same user) and addMacro('protein', g) is called only while a loadData is
\* suspended; every select is answered, no upsert fails, and the upserts are
\* applied in the order they were sent.
NextRace ==
    \/ AuthChange("u1")
    \/ loads # EmptyBag /\ \E g \in ProteinInputs : addMacro("protein", g)
    \/ \E m \in upserts : Oldest(m) /\ UpsertLand(m)
    \/ \E l \in BagToSet(loads) : FetchAnswer(l)
    \/ \E l \in BagToSet(loads) : LoadLog(l)
    \/ \E l \in BagToSet(loads) : LoadGoals(l)
    \/ \E l \in BagToSet(loads) : LoadProfile(l)

SpecRace == InitMacro /\ [][NextRace]_vars

\* C25: once every loadData has returned, the cached proteinGrams holds every
\* amount added while a loadData was in flight: it is the stored value plus
\* the sum of the amounts.
C25_MutationSurvivesReload ==
    loads = EmptyBag
    => todayLog.proteinGrams = dbToApp(StoredLog).proteinGrams + SumGrams(issued)

\* ------------------------------------------------------------------ C26
\* One session of u1 whose only mutation is setSleep(7), with a store that
\* answers every select.
NextSleep ==
    \/ setSleep(7)
    \/ \E m \in upserts : UpsertLand(m)
    \/ \E m \in upserts : UpsertFail(m)
    \/ \E u \in {"u1", NoUser} : AuthChange(u)
    \/ \E l \in BagToSet(loads) : FetchAnswer(l)
    \/ \E l \in BagToSet(loads) : LoadLog(l)
    \/ \E l \in BagToSet(loads) : LoadGoals(l)
    \/ \E l \in BagToSet(loads) : LoadProfile(l)

SpecSleep == Init /\ [][NextSleep]_vars

\* C26: with setSleep the only mutator called, the stored row of the day
\* keeps every field but sleep_hours and updated_at, whenever the mutator is
\* called.
C26_UntouchedFieldsKept ==
    \E r \in daily_logs :
        /\ r.user_id = StoredLog.user_id /\ r.log_date = StoredLog.log_date
        /\ \A f \in DOMAIN StoredLog \ {"sleep_hours", "updated_at"} : r[f] = StoredLog[f]

\* ------------------------------------------------------------------ C27
\* C27: a loadData that resumes with a row of a user who is not the user of
\* the session sets no part of the cache; and no upsert under the id of
\* another user than u1 carries the weight stored for u1, which no mutator
\* is called with.
C27_NoCrossUserData ==
    /\ [][\A l \in BagToSet(loads) :
             (LoadLog(l) \/ LoadGoals(l) \/ LoadProfile(l)) /\ l.user # user /\ l.data # {}
             => UNCHANGED cache]_vars
    /\ [](\A m \in upserts :
             m.row.user_id # StoredLog.user_id => m.row.weight_lbs # StoredLog.weight_lbs)

\* ------------------------------------------------------------------ C28
\* C28: every upsert in flight is keyed on the local day of the instant it
\* was sent at, which saveToSupabase stamps as updated_at.
C28_KeyedOnDayOfMutation ==
    \A m \in upserts : m.row.log_date = getLocalDateString(m.row.updated_at)


\* C29: when an updateGoal returns without error, the store holds a goals row
\* of the calling user from which a reload reads the value that was asked for.
C29_GoalUpdateRoundTrips ==
    [][\A w \in writes :
         (UpdateReturn(w) /\ w.kind = "goal" /\ w.pc = "ok")
         => \E r \in user_goals :
              /\ r.user_id = w.user
              /\ dbGoalsToApp(r)[w.field] = w.value[1]]_vars


\* C30: every point that getWeightHistory has returned carries, as its label,
\* the day of the row it was made from, whatever the zone of the device.
C30_LabelIsOwnDay ==
    \A q \in Answered("getWeightHistory") :
        (q.user # NoUser /\ q.error = "none")
        => LET data == order(QueryRows(q))
           IN  \A i \in 1..Len(q.value[1]) : q.value[1][i].date = data[i].log_date

====
